---- MODULE Spec2Model ----
(***************************************************************************)
(* WhiteAnalysis: token-bounded batching, prompt assembly and the retrying *)
(* run loop (src/src/whiteanalysis/prompts.py, main.py).                   *)
(*                                                                         *)
(* Two specifications share this module:                                   *)
(*   SpecPrompts  the prompt assemblers of prompts.py applied, in any      *)
(*                order, to inputs drawn in InitPrompts;                   *)
(*   Spec         run_analysis / process_document / run_full_page /        *)
(*                run_batched_prompts / run_single_batch of main.py.       *)
(***************************************************************************)
EXTENDS Integers, Sequences, FiniteSets, TLC

(***************************************************************************)
(* Bounds of the model.                                                    *)
(***************************************************************************)
MaxPages == 3
MaxTok == 2
MaxCalls == 2
MaxDocs == 2

(***************************************************************************)
(* Text and the tokenizer.                                                 *)
(* A text is a sequence of segments; a page's text is the empty text or    *)
(* one segment.  A segment records the page it was extracted from, the     *)
(* number of tokens encode() gives it on its own, and whether its first    *)
(* token merges with the last token of the text before it when the two     *)
(* are concatenated and encoded together (a byte-pair merge across the     *)
(* boundary).  String concatenation (+, +=) is \o.                         *)
(***************************************************************************)
Segment(src, tok, glue) == [src |-> src, tok |-> tok, glue |-> glue]

RECURSIVE SumTok(_)
SumTok(text) ==
    IF text = << >> THEN 0 ELSE Head(text).tok + SumTok(Tail(text))

Merges(text) ==
    Cardinality({i \in 2..Len(text) : text[i].glue})

\* len(encodings.encode(text))
TokenCount(text) == SumTok(text) - Merges(text)

\* PDFDocument(filename, page, text)
PDFDocument(page, text) == [page |-> page, text |-> text]

RECURSIVE ConcatTexts(_)
ConcatTexts(texts) ==
    IF texts = << >> THEN << >> ELSE Head(texts) \o ConcatTexts(Tail(texts))

\* sum(len(encodings.encode(x.text)) for x in pages)
RECURSIVE total_length_of(_)
total_length_of(pages) ==
    IF pages = << >> THEN 0
    ELSE TokenCount(Head(pages).text) + total_length_of(Tail(pages))

(***************************************************************************)
(* Message blocks.  A block is the dict {"content", "role"}; its content   *)
(* is the opening delimiter (tag), the page text it wraps and the issue    *)
(* text it wraps.                                                          *)
(***************************************************************************)
Block(role, tag, text, issue) ==
    [role |-> role, tag |-> tag, text |-> text, issue |-> issue]

\* the one block of the module-level list system_prompt, as written in the source
SystemPromptBlock == Block("system", "INSTRUCTIONS", << >>, "")

IsInstruction(b) == b.tag = "INSTRUCTIONS"
IsTask(b) == b.tag \in {"<DRAFT>", "<ISSUE>"}
IsContext(b) == ~IsInstruction(b) /\ ~IsTask(b)

CountBlocks(p, P(_)) == Cardinality({i \in 1..Len(p) : P(p[i])})

(***************************************************************************)
(* create_batched_prompts                                                  *)
(***************************************************************************)
\* prompts = deepcopy(system_prompt); append <DRAFT>; append <CONTEXT>
BatchPrompt(template, issue, current_context) ==
    template \o << Block("user", "<DRAFT>", << >>, issue),
                   Block("system", "<CONTEXT>", current_context, "") >>

\* a faulty loop body: the tokens already in current_context are not counted
BatchStepNoCurrent(acc, page, issue, page_batch_size, template) ==
    LET new_tokens == TokenCount(page.text)
    IN  IF new_tokens > page_batch_size
        THEN [prompts_list |-> Append(acc.prompts_list,
                                 BatchPrompt(template, issue, acc.current_context)),
              current_context |-> page.text]
        ELSE [prompts_list |-> acc.prompts_list,
              current_context |-> acc.current_context \o page.text]

\* one iteration of the loop over pages
BatchStep(acc, page, issue, page_batch_size, template) ==
    LET current_tokens == TokenCount(acc.current_context)
        new_tokens == TokenCount(page.text)
    IN  IF current_tokens + new_tokens > page_batch_size
        THEN [prompts_list |-> Append(acc.prompts_list,
                                 BatchPrompt(template, issue, acc.current_context)),
              current_context |-> page.text]
        ELSE [prompts_list |-> acc.prompts_list,
              current_context |-> acc.current_context \o page.text]

RECURSIVE BatchScan(_, _, _, _, _)
BatchScan(acc, pages, issue, page_batch_size, template) ==
    IF pages = << >> THEN acc
    ELSE BatchScan(BatchStep(acc, Head(pages), issue, page_batch_size, template),
                   Tail(pages), issue, page_batch_size, template)

\* returns prompts_list; the accumulator left after the loop is not emitted
create_batched_prompts(pages, issue, page_batch_size, template) ==
    BatchScan([prompts_list |-> << >>, current_context |-> << >>],
              pages, issue, page_batch_size, template).prompts_list

(***************************************************************************)
(* create_full_paper_prompts                                               *)
(***************************************************************************)
PageBlocks(pages) ==
    [i \in 1..Len(pages) |-> Block("system", "<PAGE>", pages[i].text, "")]

\* a faulty assembler: the <DRAFT> block is appended after the pages
FullPaperTaskLast(pages, issue, template) ==
    template \o PageBlocks(pages) \o << Block("user", "<DRAFT>", << >>, issue) >>

create_full_paper_prompts(pages, issue, template) ==
    template \o << Block("user", "<DRAFT>", << >>, issue) >> \o PageBlocks(pages)

(***************************************************************************)
(* return_pages / create_prompts                                           *)
(***************************************************************************)
\* seq[-range:]  (range = 0 gives the whole list)
LastN(seq, range) ==
    IF range = 0 \/ range >= Len(seq) THEN seq
    ELSE SubSeq(seq, Len(seq) - range + 1, Len(seq))

\* seq[:range]
FirstN(seq, range) ==
    IF range >= Len(seq) THEN seq ELSE SubSeq(seq, 1, range)

return_pages(pages, focal_page_number, range) ==
    LET IsFocal(p) == p.page = focal_page_number
        Before(p) == p.page < focal_page_number
        After(p) == p.page > focal_page_number
    IN  [focal |-> SelectSeq(pages, IsFocal),
         pages_before |-> LastN(SelectSeq(pages, Before), range),
         pages_after |-> FirstN(SelectSeq(pages, After), range)]

\* The outcome of create_prompts: the exception it raises ("" when it returns),
\* the list it returns and the module-level system_prompt it leaves behind.
\* prompts = system_prompt aliases the module-level list, so the four appends
\* are appends to system_prompt itself.
create_prompts(template, pages, focal_page_number, range, issue) ==
    LET r == return_pages(pages, focal_page_number, range)
    IN  IF r.focal = << >>
        THEN [raised |-> "IndexError", prompts |-> << >>, system_prompt |-> template]
        ELSE IF r.pages_before # << >> \/ r.pages_after # << >>
        THEN \* x['page'] on a PDFDocument: not subscriptable
             [raised |-> "TypeError", prompts |-> << >>, system_prompt |-> template]
        ELSE LET appended ==
                     template \o
                     << Block("system", "<CONTEXT BEFORE FOCAL PAGE>", << >>, ""),
                        Block("system", "<FOCAL PAGE>", r.focal[1].text, ""),
                        Block("system", "<CONTEXT AFTER FOCAL PAGE>", << >>, ""),
                        Block("user", "<ISSUE>", << >>, issue) >>
             IN  [raised |-> "", prompts |-> appended, system_prompt |-> appended]

(***************************************************************************)
(* main.py: program constants.                                             *)
(***************************************************************************)
\* if total_length <= 100: unstructured extraction
unstructured_threshold == 100
\* run_full_page(...) if total_length < 64000 else run_batched_prompts(...)
full_document_threshold == 64000
\* prompt_batch_size = 64000
prompt_batch_size == 64000
\* tenacity.stop_after_attempt(5)
stop_after_attempt == 5
\* tenacity.wait_exponential(min=1, max=60), multiplier 1, exp_base 2
wait_min == 1
wait_max == 60
exp_base == 2

Min(a, b) == IF a <= b THEN a ELSE b
Max(a, b) == IF a >= b THEN a ELSE b

RECURSIVE Pow(_, _)
Pow(b, n) == IF n = 0 THEN 1 ELSE b * Pow(b, n - 1)

(***************************************************************************)
(* The tenacity.retry decorator of run_full_page and run_single_batch.     *)
(* The retry state of one decorated call:                                  *)
(*   fn               the decorated function                               *)
(*   attempt_number   the number of the current (or last) attempt          *)
(*   calls            iclient.create invocations made by this call         *)
(*   waits            the sleeps made between attempts, in order           *)
(*   outcome          "pending", "returned" or "RetryError"                *)
(*   last_exc         the exception of the last failed attempt             *)
(*   returned_attempt the attempt whose value the call returned            *)
(***************************************************************************)
NewCall(fn) ==
    [fn |-> fn, attempt_number |-> 1, calls |-> 0, waits |-> << >>,
     outcome |-> "pending", last_exc |-> "", returned_attempt |-> 0]

NoCall == NewCall("none")

\* a faulty wait: the exponent is the attempt number itself
wait_exponential_from_two(attempt_number) ==
    Max(wait_min, Min(1 * Pow(exp_base, attempt_number), wait_max))

\* wait_exponential.__call__: the sleep after failed attempt attempt_number
wait_exponential(attempt_number) ==
    Max(wait_min, Min(1 * Pow(exp_base, attempt_number - 1), wait_max))

\* a faulty stop condition: one attempt too many
RetryOnFailureOffByOne(retry, exc, called) ==
    LET r == [retry EXCEPT !.last_exc = exc,
                           !.calls = IF called THEN @ + 1 ELSE @]
    IN  IF r.attempt_number > stop_after_attempt
        THEN [r EXCEPT !.outcome = "RetryError"]
        ELSE [r EXCEPT !.waits = Append(@, wait_exponential(r.attempt_number)),
                       !.attempt_number = @ + 1]

\* a faulty retry: the first retry is made without waiting
RetryOnFailureNoFirstWait(retry, exc, called) ==
    LET r == [retry EXCEPT !.last_exc = exc,
                           !.calls = IF called THEN @ + 1 ELSE @]
    IN  IF r.attempt_number >= stop_after_attempt
        THEN [r EXCEPT !.outcome = "RetryError"]
        ELSE [r EXCEPT !.waits = IF r.attempt_number = 1 THEN @
                                 ELSE Append(@, wait_exponential(r.attempt_number)),
                       !.attempt_number = @ + 1]

\* an attempt raised exc (any Exception): stop after attempt 5 with
\* RetryError, otherwise sleep and go to the next attempt
RetryOnFailure(retry, exc, called) ==
    LET r == [retry EXCEPT !.last_exc = exc,
                           !.calls = IF called THEN @ + 1 ELSE @]
    IN  IF r.attempt_number >= stop_after_attempt
        THEN [r EXCEPT !.outcome = "RetryError"]
        ELSE [r EXCEPT !.waits = Append(@, wait_exponential(r.attempt_number)),
                       !.attempt_number = @ + 1]

\* an attempt returned: the decorated call returns that value
RetryOnSuccess(retry) ==
    [retry EXCEPT !.calls = @ + 1, !.outcome = "returned",
                  !.returned_attempt = retry.attempt_number]

\* Insights returned by iclient.create for batch b (0: the full document)
Insights(b) == [batch |-> b]

\* time.sleep(60) in run_full_page and time.sleep(30) in run_batched_prompts
full_page_cooldown == 60
batch_cooldown == 30

CooldownScaledByAttempts(r) ==
    IF r.fn = "run_full_page" THEN full_page_cooldown * r.attempt_number
    ELSE batch_cooldown * r.attempt_number

\* the seconds slept after the decorated call r has returned: a literal in
\* either function
Cooldown(r) ==
    IF r.fn = "run_full_page" THEN full_page_cooldown ELSE batch_cooldown

\* a faulty routing decision: the unstructured-extraction threshold is used
UseFullPageWrongThreshold(total_length) == total_length < unstructured_threshold

\* a faulty routing decision: the threshold is ten times the batch ceiling
UseFullPageTenfold(total_length) == total_length < 10 * prompt_batch_size

\* process_document: the routing decision of one case
UseFullPage(total_length) == total_length < full_document_threshold

\* responses.append(response) in run_batched_prompts, and a faulty variant
\* that keeps the last response only
KeepLastResponse(responses, response) == << response >>

AppendResponse(responses, response) == Append(responses, response)

\* a faulty handler: the responses gathered so far are lost
ReturnNothingOnBatchError(responses) == << >>

\* run_batched_prompts, except Exception: return responses
ReturnOnBatchError(responses) == responses

\* a faulty handler: the exception is raised again and reaches the except
\* of process_document
ExceptReraises == "doc_except"

\* where the run goes on once run_batched_prompts' except has returned: at
\* generate_insights_report in process_document
ExceptReturns == "render_html"

(***************************************************************************)
(* State.                                                                  *)
(*   system_prompt   the module-level list of prompts.py                   *)
(*   harness         the inputs (pages, issue, page_batch_size) the        *)
(*                   assemblers are applied to, the function applied last  *)
(*                   (fn), what it returned (out: a list of prompts) and   *)
(*                   the exception it raised                               *)
(***************************************************************************)
VARIABLES system_prompt, harness

(***************************************************************************)
(* State of a run of run_analysis.                                         *)
(*   pc             the position of the single thread                      *)
(*   encodings      TRUE: the tokenizer was loaded; FALSE: encodings=None  *)
(*   ndocs, doc     len(filenames) and the number of the document being    *)
(*                  (or last) processed                                    *)
(*   cases, case_i  the case texts and the number of the current case      *)
(*   pages          the pages of the current document                      *)
(*   path           the path the current case was routed to                *)
(*   prompt_batches, batch_i   the batches of the current case and the     *)
(*                  number of the batch being (or last) run                *)
(*   responses      the responses list of the current case                 *)
(*   retry          the retry state of the current (or last) decorated call*)
(*   case_calls     iclient.create invocations made for the current case   *)
(*   case_failed    some attempt of the current case raised                *)
(*   failed_batch   the batch whose RetryError run_batched_prompts caught  *)
(*   rendered       the renderer calls made for the current document       *)
(*   doc_error      the exception caught at the document boundary          *)
(*   exit_code      -1 while running, then the exit code                   *)
(*   parse_failed   the cases file could not be parsed (except at line 287)*)
(*   docs_failed    "Error processing document" lines logged so far        *)
(*   sleeping       seconds of the time.sleep in progress, 0 when none     *)
(***************************************************************************)
VARIABLES pc, encodings, ndocs, doc, cases, case_i, pages, path,
          prompt_batches, batch_i, responses, retry, case_calls, case_failed,
          failed_batch, rendered, doc_error, exit_code, parse_failed,
          docs_failed, sleeping

(***************************************************************************)
(* The state of one escaped field of the HTML report:                      *)
(*   report   the field written, the string it holds, the markup written   *)
(*            for it by generate_insights_report, and whether it has been  *)
(*            written                                                      *)
(***************************************************************************)
VARIABLE report

pvars == << system_prompt, harness >>
rvars == << pc, encodings, ndocs, doc, cases, case_i, pages, path,
            prompt_batches, batch_i, responses, retry, case_calls, case_failed,
            failed_batch, rendered, doc_error, exit_code, parse_failed,
            docs_failed, sleeping >>
vars == << pvars, rvars, report >>

IdleHarness ==
    [pages |-> << >>, issue |-> "", page_batch_size |-> 0,
     fn |-> "none", out |-> << >>, raised |-> ""]

IdleReport ==
    [field |-> "none", original |-> << >>, html |-> << >>, written |-> FALSE]

InitRun ==
    /\ pc = "setup"
    /\ encodings = TRUE
    /\ ndocs = 0
    /\ doc = 0
    /\ cases = << >>
    /\ case_i = 0
    /\ pages = << >>
    /\ path = "none"
    /\ prompt_batches = << >>
    /\ batch_i = 0
    /\ responses = << >>
    /\ retry = NoCall
    /\ case_calls = 0
    /\ case_failed = FALSE
    /\ failed_batch = 0
    /\ rendered = << >>
    /\ doc_error = ""
    /\ exit_code = -1
    /\ parse_failed = FALSE
    /\ docs_failed = 0
    /\ sleeping = 0

PageChoices == (0..MaxTok) \X BOOLEAN

TextOf(src, choice) ==
    IF choice[1] = 0 THEN << >> ELSE << Segment(src, choice[1], choice[2]) >>

\* get_content_from_pdf numbers the pages 0, 1, ...
PageSeqs ==
    UNION { { [i \in 1..n |-> PDFDocument(i - 1, TextOf(i - 1, f[i]))] :
                f \in [1..n -> PageChoices] } : n \in 0..MaxPages }

Ceilings == 0..(MaxTok + 1)

InitPrompts ==
    /\ InitRun
    /\ report = IdleReport
    /\ system_prompt = << SystemPromptBlock >>
    /\ \E pgs \in PageSeqs, issue \in { "case_a" }, size \in Ceilings :
         harness = [pages |-> pgs, issue |-> issue, page_batch_size |-> size,
                    fn |-> "none", out |-> << >>, raised |-> ""]

CallCreateBatchedPrompts ==
    /\ harness' = [harness EXCEPT
                     !.fn = "create_batched_prompts",
                     !.out = create_batched_prompts(harness.pages, harness.issue,
                                 harness.page_batch_size, system_prompt),
                     !.raised = ""]
    /\ UNCHANGED << system_prompt, rvars, report >>

CallCreateFullPaperPrompts ==
    /\ harness' = [harness EXCEPT
                     !.fn = "create_full_paper_prompts",
                     !.out = << create_full_paper_prompts(harness.pages,
                                    harness.issue, system_prompt) >>,
                     !.raised = ""]
    /\ UNCHANGED << system_prompt, rvars, report >>

CallCreatePrompts ==
    /\ Len(system_prompt) < 1 + 4 * MaxCalls
    /\ \E focal_page_number \in 0..MaxPages, range \in 0..1 :
         LET r == create_prompts(system_prompt, harness.pages,
                                 focal_page_number, range, harness.issue)
         IN  /\ system_prompt' = r.system_prompt
             /\ harness' = [harness EXCEPT
                              !.fn = "create_prompts",
                              !.out = IF r.raised = "" THEN << r.prompts >>
                                      ELSE << >>,
                              !.raised = r.raised]
    /\ UNCHANGED << rvars, report >>

NextPrompts ==
    \/ CallCreateBatchedPrompts
    \/ CallCreateFullPaperPrompts
    \/ CallCreatePrompts

SpecPrompts == InitPrompts /\ [][NextPrompts]_vars

(***************************************************************************)
(* What the last assembler call was given and what it returned.            *)
(***************************************************************************)
PageTexts(pgs) == [i \in 1..Len(pgs) |-> pgs[i].text]

\* the text carried by the <CONTEXT> block of each emitted batch, in order
EmittedContexts ==
    [i \in 1..Len(harness.out) |-> harness.out[i][Len(harness.out[i])].text]

Batched == harness.fn = "create_batched_prompts"
FullPaper == harness.fn = "create_full_paper_prompts"

OversizedPage(text) ==
    /\ Len(text) = 1
    /\ \E i \in 1..Len(harness.pages) : harness.pages[i].text = text
    /\ TokenCount(text) > harness.page_batch_size

\* C1 (as claimed): for a non-empty page sequence, the texts carried by the
\* batches create_batched_prompts emits, concatenated in order, are the page
\* texts concatenated in order: nothing dropped, duplicated or reordered, the
\* accumulator left at the end of the scan included.
C1_OrderingPreservation ==
    (Batched /\ harness.pages # << >>) =>
        ConcatTexts(EmittedContexts) = ConcatTexts(PageTexts(harness.pages))

\* C2: every batch create_batched_prompts emits has a context of at most
\* page_batch_size tokens, unless the context is one single page whose own
\* token count exceeds page_batch_size.
C2_BatchTokenBound ==
    Batched =>
        \A i \in 1..Len(harness.out) :
            \/ TokenCount(EmittedContexts[i]) <= harness.page_batch_size
            \/ OversizedPage(EmittedContexts[i])

\* C2 witness: a call that emitted an oversized single-page batch and also a
\* non-empty batch within the ceiling.
C2_Witness ==
    /\ Batched
    /\ \E i \in 1..Len(harness.out) : OversizedPage(EmittedContexts[i])
    /\ \E j \in 1..Len(harness.out) :
         /\ EmittedContexts[j] # << >>
         /\ TokenCount(EmittedContexts[j]) <= harness.page_batch_size

\* C8 (as claimed): every prompt returned by any assembler, after any number
\* of earlier assembler calls, holds exactly one instruction block and exactly
\* one task block.
C8_TemplateImmutability ==
    \A i \in 1..Len(harness.out) :
        /\ CountBlocks(harness.out[i], IsInstruction) = 1
        /\ CountBlocks(harness.out[i], IsTask) = 1

\* The blocks the call itself appended after the copied template: the <DRAFT>
\* block and then n context blocks (n = 1 for a batch, one per page for the
\* full document).
EndsWithDraftThenContexts(p, n, tag) ==
    /\ Len(p) >= n + 2
    /\ p[Len(p) - n].tag = "<DRAFT>"
    /\ p[Len(p) - n].issue = harness.issue
    /\ \A k \in (Len(p) - n + 1)..Len(p) : p[k].tag = tag

\* C9 (as claimed): every prompt of create_batched_prompts and
\* create_full_paper_prompts has exactly one instruction block, it is the
\* first block, and the task block is the last block.
C9_TaskBlockLast ==
    (Batched \/ FullPaper) =>
        \A i \in 1..Len(harness.out) :
            LET p == harness.out[i]
            IN  /\ CountBlocks(p, IsInstruction) = 1
                /\ IsInstruction(p[1])
                /\ IsTask(p[Len(p)])

\* C9 (amended): every such prompt has exactly one instruction block, it is
\* the first block, and the <DRAFT> task block the call appends comes before
\* the call's context blocks, which end the sequence: the one <CONTEXT> block
\* of a batch, or one <PAGE> block per page of the full document.
C9_TaskBlockBeforeContext ==
    (Batched \/ FullPaper) =>
        \A i \in 1..Len(harness.out) :
            LET p == harness.out[i]
            IN  /\ CountBlocks(p, IsInstruction) = 1
                /\ IsInstruction(p[1])
                /\ IF Batched
                   THEN EndsWithDraftThenContexts(p, 1, "<CONTEXT>")
                   ELSE EndsWithDraftThenContexts(p, Len(harness.pages), "<PAGE>")

\* C9 witness: a full-document prompt over at least two pages, built after
\* create_prompts has run.
C9_Witness ==
    /\ FullPaper
    /\ Len(harness.pages) >= 2
    /\ Len(harness.out) = 1
    /\ Len(system_prompt) > 1

\* the accumulators the greedy scan of the given pages closes, in order, and
\* after them the one it is left with, when that holds a page
GreedyContexts ==
    LET scan == BatchScan([prompts_list |-> << >>, current_context |-> << >>],
                          harness.pages, harness.issue,
                          harness.page_batch_size, system_prompt)
        closed == [i \in 1..Len(scan.prompts_list) |->
                       scan.prompts_list[i][Len(scan.prompts_list[i])].text]
    IN  IF scan.current_context = << >> THEN closed
        ELSE Append(closed, scan.current_context)

\* C17 (as claimed): the batches create_batched_prompts emits are the runs
\* of whole pages the greedy rule forms: an accumulator is closed exactly
\* when the next page would take it over the ceiling, the page seeds the next
\* one, and the run left at the end is a batch as well (pages of 10, 20 and
\* 30 tokens with ceiling 25 give three batches of one page each).
C17_GreedyClosingRule ==
    Batched => EmittedContexts = GreedyContexts

AllPagesHaveText == \A i \in 1..Len(harness.pages) : harness.pages[i].text # << >>

\* C18 (as claimed): when every page has text, no batch create_batched_prompts
\* emits has an empty context, also when the first page alone exceeds the
\* ceiling.
C18_NoEmptyBatch ==
    (Batched /\ AllPagesHaveText) =>
        \A i \in 1..Len(harness.out) : EmittedContexts[i] # << >>

\* C19 (as claimed): after any sequence of calls of create_prompts,
\* create_batched_prompts and create_full_paper_prompts the module-level
\* system_prompt is still the one block it was defined as.
C19_TemplateFrameCondition ==
    system_prompt = << SystemPromptBlock >>

\* C23 (as claimed): the prompt create_full_paper_prompts returns for n pages
\* has n + 2 blocks, the instruction block, the task block and exactly one
\* <PAGE> block per page, in page order, each carrying the text of its page;
\* a prompt of create_batched_prompts carries its batch in one <CONTEXT>
\* block, its only context block.
C23_FullDocumentPromptShape ==
    /\ FullPaper =>
           LET p == harness.out[1]
               n == Len(harness.pages)
           IN  /\ Len(p) = n + 2
               /\ CountBlocks(p, IsContext) = n
               /\ \A i \in 1..n :
                      p[Len(p) - n + i] =
                          Block("system", "<PAGE>", harness.pages[i].text, "")
    /\ Batched =>
           \A i \in 1..Len(harness.out) :
               /\ CountBlocks(harness.out[i], IsContext) = 1
               /\ harness.out[i][Len(harness.out[i])].tag = "<CONTEXT>"

(***************************************************************************)
(* The run loop of main.py.                                                *)
(***************************************************************************)
\* the pages a document can have: a short page, half a batch, more than a
\* batch
RunPageChoices == { <<50, FALSE>>, <<32000, FALSE>>, <<64001, FALSE>> }

\* page sequences numbered from first: get_content_from_pdf numbers from 0,
\* process_document numbers the unstructured pages from 1
RunPageSeqs(first) ==
    UNION { { [i \in 1..n |-> PDFDocument(first + i - 1,
                                          TextOf(first + i - 1, f[i]))] :
                f \in [1..n -> RunPageChoices] } : n \in 0..MaxPages }

CaseLists == { << >>, << "case_a" >>, << "case_a", "case_b" >> }

\* the text of the cases file, as far as json.loads can tell texts apart:
\*   syntax             "object" when the text is a JSON object of strings
\*                      apart from what the next two fields describe,
\*                      "garbage" otherwise (cut short, not JSON at all)
\*   control_in_string  a raw control character (a line break, a tab) stands
\*                      inside a string literal
\*   quote_backslashes  the number of backslashes in front of a quote that
\*                      stands inside a string literal, 0 when there is none
\*   cases              the mapping the object denotes
CaseFile(syntax, control_in_string, quote_backslashes, cs) ==
    [syntax |-> syntax, control_in_string |-> control_in_string,
     quote_backslashes |-> quote_backslashes, cases |-> cs]

CaseFiles ==
    { CaseFile("object", c, q, cs) :
          c \in BOOLEAN, q \in 0..1, cs \in CaseLists }
    \cup { CaseFile("garbage", FALSE, 0, << >>) }

\* clean_json_string: the replacement of quotes by themselves changes
\* nothing, the control characters are removed, runs of whitespace collapse to
\* one space (of no consequence to the parser), every backslash is doubled,
\* and no line break is left to be escaped
clean_json_string(text) ==
    [text EXCEPT !.control_in_string = FALSE,
                 !.quote_backslashes = 2 * @]

\* json.loads raises on a text that is not JSON, on a raw control character
\* inside a string, and when an even number of backslashes stands in front
\* of an inner quote: they escape each other, the quote ends the string and
\* what follows it is not JSON
json_loads_raises(text) ==
    \/ text.syntax # "object"
    \/ text.control_in_string
    \/ (text.quote_backslashes > 0 /\ text.quote_backslashes % 2 = 0)

\* whiteanalysis.paper.py_cases, the built-in mapping
py_cases == << "py_case" >>

\* a faulty variant: a cases file that cannot be parsed leaves no cases
LoadCasesNoDefault(text) ==
    IF json_loads_raises(clean_json_string(text))
    THEN [cases |-> << >>, parse_failed |-> TRUE]
    ELSE [cases |-> clean_json_string(text).cases, parse_failed |-> FALSE]

\* run_analysis: cases = json.loads(clean_json_string(f.read())), and
\* cases = py_cases on any exception
LoadCases(text) ==
    IF json_loads_raises(clean_json_string(text))
    THEN [cases |-> py_cases, parse_failed |-> TRUE]
    ELSE [cases |-> clean_json_string(text).cases, parse_failed |-> FALSE]

\* exceptions iclient.create raises: a transient and a permanent kind
ServiceErrors == { "RateLimitError", "AuthenticationError" }

\* the locals of one case iteration, as they are before the case is routed
ResetCase ==
    /\ path' = "none"
    /\ prompt_batches' = << >>
    /\ batch_i' = 0
    /\ responses' = << >>
    /\ retry' = NoCall
    /\ case_calls' = 0
    /\ case_failed' = FALSE
    /\ failed_batch' = 0

\* run_analysis up to the loop over filenames: list the folder, read the
\* cases (py_cases when the file cannot be parsed), load the tokenizer
\* (encodings = None when that raises); an exception outside the inner try
\* blocks (the folder or the cases file cannot be opened) exits with code 1
run_analysis_setup ==
    /\ pc = "setup"
    /\ \/ /\ pc' = "done"
          /\ exit_code' = 1
          /\ UNCHANGED << parse_failed, encodings, ndocs, cases >>
       \/ /\ \E n \in { 0, MaxDocs }, enc \in BOOLEAN, text \in CaseFiles :
               /\ ndocs' = n
               /\ encodings' = enc
               /\ cases' = LoadCases(text).cases
               /\ parse_failed' = LoadCases(text).parse_failed
          /\ pc' = "next_doc"
          /\ UNCHANGED exit_code
    /\ UNCHANGED << doc, case_i, pages, path, prompt_batches, batch_i,
                    responses, retry, case_calls, case_failed, failed_batch,
                    rendered, doc_error, docs_failed, sleeping, pvars, report >>

\* a faulty variant: the exit code reports the documents that failed
run_analysis_complete_strict ==
    /\ pc = "next_doc"
    /\ doc = ndocs
    /\ pc' = "done"
    /\ exit_code' = IF docs_failed > 0 THEN 1 ELSE 0
    /\ UNCHANGED << parse_failed, encodings, ndocs, doc, cases, case_i, pages,
                    path, prompt_batches, batch_i, responses, retry, case_calls,
                    case_failed, failed_batch, rendered, doc_error,
                    docs_failed, sleeping, pvars, report >>

\* run_analysis after the loop: "Analysis complete"
run_analysis_complete ==
    /\ pc = "next_doc"
    /\ doc = ndocs
    /\ pc' = "done"
    /\ exit_code' = 0
    /\ UNCHANGED << parse_failed, encodings, ndocs, doc, cases, case_i, pages, path,
                    prompt_batches, batch_i, responses, retry, case_calls,
                    case_failed, failed_batch, rendered, doc_error,
                    docs_failed, sleeping, pvars, report >>

\* process_document up to the loop over cases: read the file, extract the
\* pages, fall back to the unstructured extraction when they hold at most
\* 100 tokens (always, when encodings is None), create the output folder
process_document_extract ==
    /\ pc = "next_doc"
    /\ doc < ndocs
    /\ doc' = doc + 1
    /\ UNCHANGED << case_i, rendered, path, prompt_batches, batch_i, responses,
                    retry, case_calls, case_failed, failed_batch >>
    /\ \/ /\ pages' = << >>
          /\ doc_error' = "ExtractionError"
          /\ pc' = "doc_except"
       \/ \E pdf \in RunPageSeqs(0) :
            LET total_length == IF encodings THEN total_length_of(pdf) ELSE 0
            IN  /\ IF total_length <= unstructured_threshold
                   THEN \E unst \in RunPageSeqs(1) : pages' = unst
                   ELSE pages' = pdf
                /\ doc_error' = ""
                /\ pc' = "next_case"
    /\ UNCHANGED << parse_failed, encodings, ndocs, cases, exit_code,
                    docs_failed, sleeping, pvars, report >>

\* the locals of process_document are gone once it has returned
DiscardDocument ==
    /\ case_i' = 0
    /\ pages' = << >>
    /\ rendered' = << >>
    /\ doc_error' = ""
    /\ ResetCase

\* the loop over cases is exhausted: process_document returns
process_document_return ==
    /\ pc = "next_case"
    /\ case_i = Len(cases)
    /\ pc' = "next_doc"
    /\ DiscardDocument
    /\ UNCHANGED << parse_failed, encodings, ndocs, doc, cases, exit_code,
                    docs_failed, sleeping, pvars, report >>

\* faulty variants of the except clause: one lets the exception propagate to
\* run_analysis, one catches it inside the loop over cases
process_document_reraise ==
    /\ pc = "doc_except"
    /\ pc' = "done"
    /\ exit_code' = 1
    /\ DiscardDocument
    /\ UNCHANGED << parse_failed, encodings, ndocs, doc, cases, docs_failed,
                    sleeping, pvars, report >>

process_document_except_in_case ==
    /\ pc = "doc_except"
    /\ pc' = "next_case"
    /\ docs_failed' = docs_failed + 1
    /\ doc_error' = ""
    /\ UNCHANGED << parse_failed, encodings, ndocs, doc, cases, case_i, pages,
                    path, prompt_batches, batch_i, responses, retry, case_calls,
                    case_failed, failed_batch, rendered, exit_code, sleeping,
                    pvars, report >>

\* except Exception in process_document: the exception is logged and
\* process_document returns
process_document_except ==
    /\ pc = "doc_except"
    /\ pc' = "next_doc"
    /\ docs_failed' = docs_failed + 1
    /\ DiscardDocument
    /\ UNCHANGED << parse_failed, encodings, ndocs, doc, cases, exit_code,
                    sleeping, pvars, report >>

\* one iteration of the loop over cases, up to the first completion call:
\* total_length (encodings.encode raises AttributeError when encodings is
\* None and there is a page to encode), then the routing; on the batched path
\* create_batched_prompts is called with prompt_batch_size
process_document_route ==
    /\ pc = "next_case"
    /\ case_i < Len(cases)
    /\ case_i' = case_i + 1
    /\ responses' = << >>
    /\ case_calls' = 0
    /\ case_failed' = FALSE
    /\ failed_batch' = 0
    /\ IF ~encodings /\ pages # << >>
       THEN /\ path' = "none"
            /\ prompt_batches' = << >>
            /\ batch_i' = 0
            /\ retry' = NoCall
            /\ doc_error' = "AttributeError"
            /\ pc' = "doc_except"
       ELSE /\ UNCHANGED doc_error
            /\ IF UseFullPage(total_length_of(pages))
               THEN /\ path' = "full"
                    /\ prompt_batches' = << >>
                    /\ batch_i' = 0
                    /\ retry' = NewCall("run_full_page")
                    /\ pc' = "full_attempt"
               ELSE LET batches == create_batched_prompts(pages,
                                      cases[case_i + 1], prompt_batch_size,
                                      system_prompt)
                    IN  /\ path' = "batched"
                        /\ prompt_batches' = batches
                        /\ IF batches = << >>
                           THEN /\ batch_i' = 0
                                /\ retry' = NoCall
                                /\ pc' = "render_html"
                           ELSE /\ batch_i' = 1
                                /\ retry' = NewCall("run_single_batch")
                                /\ pc' = "batch_attempt"
    /\ UNCHANGED << parse_failed, encodings, ndocs, doc, cases, pages, rendered, exit_code,
                    docs_failed, sleeping, pvars, report >>

\* one attempt of run_full_page: create_full_paper_prompts (which encodes the
\* system prompt, so raises AttributeError when encodings is None), then
\* iclient.create; any exception is re-raised to the retry decorator, the
\* RetryError after the last attempt propagates to process_document's except
run_full_page_attempt ==
    /\ pc = "full_attempt"
    /\ \/ /\ encodings
          /\ retry' = RetryOnSuccess(retry)
          /\ case_calls' = case_calls + 1
          /\ responses' = << Insights(0) >>
          /\ sleeping' = Cooldown(RetryOnSuccess(retry))
          /\ pc' = "full_cooldown"
          /\ UNCHANGED << case_failed, doc_error >>
       \/ \E exc \in ServiceErrors \cup { "AttributeError" } :
            /\ (exc = "AttributeError") <=> ~encodings
            /\ LET r == RetryOnFailure(retry, exc, encodings)
               IN  /\ retry' = r
                   /\ pc' = IF r.outcome = "RetryError" THEN "doc_except"
                            ELSE "full_attempt"
                   /\ doc_error' = IF r.outcome = "RetryError" THEN "RetryError"
                                   ELSE doc_error
            /\ case_calls' = IF encodings THEN case_calls + 1 ELSE case_calls
            /\ case_failed' = TRUE
            /\ UNCHANGED << responses, sleeping >>
    /\ UNCHANGED << parse_failed, encodings, ndocs, doc, cases, case_i, pages, path,
                    prompt_batches, batch_i, failed_batch, rendered, exit_code,
                    docs_failed, pvars, report >>

\* time.sleep(60) in run_full_page, then return responses
run_full_page_cooldown ==
    /\ pc = "full_cooldown"
    /\ sleeping' = 0
    /\ pc' = "render_html"
    /\ UNCHANGED << parse_failed, encodings, ndocs, doc, cases, case_i, pages, path,
                    prompt_batches, batch_i, responses, retry, case_calls,
                    case_failed, failed_batch, rendered, doc_error, exit_code,
                    docs_failed, pvars, report >>

\* one attempt of run_single_batch on prompt_batches[batch_i]; the RetryError
\* after the last attempt is caught by run_batched_prompts, which returns the
\* responses gathered so far
run_single_batch_attempt ==
    /\ pc = "batch_attempt"
    /\ case_calls' = case_calls + 1
    /\ \/ /\ retry' = RetryOnSuccess(retry)
          /\ responses' = AppendResponse(responses, Insights(batch_i))
          /\ sleeping' = Cooldown(RetryOnSuccess(retry))
          /\ pc' = "batch_cooldown"
          /\ UNCHANGED << case_failed, failed_batch >>
       \/ \E exc \in ServiceErrors :
            LET r == RetryOnFailure(retry, exc, TRUE)
            IN  /\ retry' = r
                /\ case_failed' = TRUE
                /\ UNCHANGED sleeping
                /\ IF r.outcome = "RetryError"
                   THEN /\ failed_batch' = batch_i
                        /\ responses' = ReturnOnBatchError(responses)
                        /\ pc' = ExceptReturns
                   ELSE /\ UNCHANGED << failed_batch, responses >>
                        /\ pc' = "batch_attempt"
    /\ UNCHANGED << parse_failed, encodings, ndocs, doc, cases, case_i, pages, path,
                    prompt_batches, batch_i, rendered, doc_error, exit_code,
                    docs_failed, pvars, report >>

\* a faulty variant: the next batch is dispatched without waiting for the
\* call of the current one
run_batched_prompts_dispatch_early ==
    /\ pc \in { "batch_attempt", "batch_cooldown" }
    /\ sleeping' = 0
    /\ IF batch_i < Len(prompt_batches)
       THEN /\ batch_i' = batch_i + 1
            /\ retry' = NewCall("run_single_batch")
            /\ pc' = "batch_attempt"
       ELSE /\ pc' = "render_html"
            /\ UNCHANGED << batch_i, retry >>
    /\ UNCHANGED << parse_failed, encodings, ndocs, doc, cases, case_i, pages, path,
                    prompt_batches, responses, case_calls, case_failed,
                    failed_batch, rendered, doc_error, exit_code,
                    docs_failed, pvars, report >>

\* time.sleep(30) in run_batched_prompts, then the next batch, or return
\* responses after the last one
run_batched_prompts_cooldown ==
    /\ pc = "batch_cooldown"
    /\ sleeping' = 0
    /\ IF batch_i < Len(prompt_batches)
       THEN /\ batch_i' = batch_i + 1
            /\ retry' = NewCall("run_single_batch")
            /\ pc' = "batch_attempt"
       ELSE /\ pc' = "render_html"
            /\ UNCHANGED << batch_i, retry >>
    /\ UNCHANGED << parse_failed, encodings, ndocs, doc, cases, case_i, pages, path,
                    prompt_batches, responses, case_calls, case_failed,
                    failed_batch, rendered, doc_error, exit_code,
                    docs_failed, pvars, report >>

RenderCall(renderer) ==
    [renderer |-> renderer, case |-> case_i, responses |-> responses]

\* generate_insights_report(responses, ...); an exception (the file cannot
\* be written) propagates to process_document's except
render_html ==
    /\ pc = "render_html"
    /\ \/ /\ rendered' = Append(rendered, RenderCall("html"))
          /\ pc' = "render_word"
          /\ UNCHANGED doc_error
       \/ /\ doc_error' = "RenderError"
          /\ pc' = "doc_except"
          /\ UNCHANGED rendered
    /\ UNCHANGED << parse_failed, encodings, ndocs, doc, cases, case_i, pages, path,
                    prompt_batches, batch_i, responses, retry, case_calls,
                    case_failed, failed_batch, exit_code,
                    docs_failed, sleeping, pvars, report >>

\* generate_word_report(responses, ...), then the next case
render_word ==
    /\ pc = "render_word"
    /\ \/ /\ rendered' = Append(rendered, RenderCall("word"))
          /\ pc' = "next_case"
          /\ UNCHANGED doc_error
       \/ /\ doc_error' = "RenderError"
          /\ pc' = "doc_except"
          /\ UNCHANGED rendered
    /\ UNCHANGED << parse_failed, encodings, ndocs, doc, cases, case_i, pages, path,
                    prompt_batches, batch_i, responses, retry, case_calls,
                    case_failed, failed_batch, exit_code,
                    docs_failed, sleeping, pvars, report >>

Init ==
    /\ InitRun
    /\ report = IdleReport
    /\ system_prompt = << SystemPromptBlock >>
    /\ harness = IdleHarness

Next ==
    \/ run_analysis_setup
    \/ run_analysis_complete
    \/ process_document_extract
    \/ process_document_return
    \/ process_document_except
    \/ process_document_route
    \/ run_full_page_attempt
    \/ run_full_page_cooldown
    \/ run_single_batch_attempt
    \/ run_batched_prompts_cooldown
    \/ render_html
    \/ render_word

Spec == Init /\ [][Next]_vars

\* every call made by the run returns or raises: a step that can be taken is
\* taken
SpecLive == Spec /\ WF_vars(Next)

(***************************************************************************)
(* The escaping of html_creation.py.  A string is a sequence of characters.*)
(***************************************************************************)
MaxStr == 3

Chars == { "&", "<", ">", "\"", "'", "a", "l", "t", ";" }

Strings == UNION { [1..n -> Chars] : n \in 0..MaxStr }

\* the fields of a quote named by the escaping contract
QuoteFields == { "text", "context", "relation" }

\* str.replace(old, new) for a one-character old
RECURSIVE Replace(_, _, _)
Replace(s, old, new) ==
    IF s = << >> THEN << >>
    ELSE (IF Head(s) = old THEN new ELSE << Head(s) >>)
             \o Replace(Tail(s), old, new)

amp == << "&", "a", "m", "p", ";" >>
lt == << "&", "l", "t", ";" >>
gt == << "&", "g", "t", ";" >>
quot == << "&", "q", "u", "o", "t", ";" >>
x27 == << "&", "#", "x", "2", "7", ";" >>

\* a faulty variant: the ampersand is replaced last
html_escape_amp_last(s) ==
    Replace(Replace(Replace(Replace(Replace(s,
        "<", lt), ">", gt), "\"", quot), "'", x27), "&", amp)

\* html.escape(s) with quote=True: & first, then < and >, then the quotes
html_escape(s) ==
    Replace(Replace(Replace(Replace(Replace(s,
        "&", amp), "<", lt), ">", gt), "\"", quot), "'", x27)

InitHtml ==
    /\ InitRun
    /\ system_prompt = << SystemPromptBlock >>
    /\ harness = IdleHarness
    /\ \E s \in Strings, f \in QuoteFields :
         report = [field |-> f, original |-> s, html |-> << >>,
                   written |-> FALSE]

\* generate_insights_report writes the escaped field of a quote
generate_insights_report ==
    /\ ~report.written
    /\ report' = [report EXCEPT !.html = html_escape(report.original),
                                !.written = TRUE]
    /\ UNCHANGED << pvars, rvars >>

NextHtml == generate_insights_report

SpecHtml == InitHtml /\ [][NextHtml]_vars

(***************************************************************************)
(* Properties of the run loop.                                             *)
(***************************************************************************)
AttemptPcs == { "full_attempt", "batch_attempt" }

\* a case has been routed and its calls or renderers are running
CaseRunning ==
    pc \in { "full_attempt", "full_cooldown", "batch_attempt", "batch_cooldown",
             "render_html", "render_word" }

Records(n) == [i \in 1..n |-> Insights(i)]

\* attempts of the current decorated call that have finished
AttemptsMade ==
    IF retry.outcome = "pending" THEN retry.attempt_number - 1
    ELSE retry.attempt_number

\* C3 (as claimed): a case routed to the batched path (total tokens at or
\* above the threshold) whose calls never fail has, when run_batched_prompts
\* returns, made at least ceil(total_tokens / prompt_batch_size) completion
\* calls.
C3_BatchedCallLowerBound ==
    (path = "batched" /\ pc = "render_html" /\ ~case_failed) =>
        case_calls * prompt_batch_size >= total_length_of(pages)

\* C4: a case whose pages hold fewer than 64000 tokens is on the
\* full-document path: create_batched_prompts is not called, no batch is run,
\* and when the first attempt succeeds exactly one completion call is made
\* for the case, up to and through rendering.
C4_RoutingBelowThreshold ==
    (CaseRunning /\ encodings /\ total_length_of(pages) < 64000) =>
        /\ path = "full"
        /\ retry.fn = "run_full_page"
        /\ prompt_batches = << >>
        /\ batch_i = 0
        /\ (pc # "full_attempt" /\ ~case_failed) =>
               /\ case_calls = 1
               /\ retry.calls = 1
               /\ responses = << Insights(0) >>

\* C4 witness: a document of more than 100 and fewer than 64000 tokens whose
\* one call succeeded at once and whose reports are being written.
C4_Witness ==
    /\ pc = "render_word"
    /\ encodings
    /\ total_length_of(pages) > 100
    /\ total_length_of(pages) < 64000
    /\ ~case_failed
    /\ case_calls = 1

WaitsIncreaseUntilCapped(waits) ==
    \A i \in 1..(Len(waits) - 1) :
        waits[i] < waits[i + 1] \/ waits[i] = wait_max

\* C5: a decorated call (run_full_page or run_single_batch) never makes more
\* than 5 attempts; when it ends in the terminal failure (RetryError) every
\* one of exactly 5 attempts has raised, whatever the exceptions were, the 4
\* waits between them were strictly increasing (until capped), no attempt is
\* pending, and the failure has reached the caller: process_document's except
\* for run_full_page, run_batched_prompts' except for run_single_batch.
C5_RetryBound ==
    /\ retry.attempt_number <= 5
    /\ retry.calls <= 5
    /\ pc \in AttemptPcs => retry.outcome = "pending"
    /\ retry.outcome = "RetryError" =>
           /\ retry.attempt_number = 5
           /\ encodings => retry.calls = 5
           /\ Len(retry.waits) = 4
           /\ WaitsIncreaseUntilCapped(retry.waits)
           /\ retry.fn = "run_full_page" =>
                  (pc = "doc_except" /\ doc_error = "RetryError")
           /\ retry.fn = "run_single_batch" => failed_batch = batch_i

\* C5 witness: run_full_page ended in RetryError after a permanent error on
\* its last attempt.
C5_Witness ==
    /\ retry.outcome = "RetryError"
    /\ retry.fn = "run_full_page"
    /\ retry.last_exc = "AuthenticationError"
    /\ retry.calls = 5

\* C6: when a decorated call returns on attempt k, k <= 5, it returns the
\* value of attempt k, iclient.create has been called exactly k times for the
\* prompt, exactly k - 1 waits have been made, the value is the last of
\* responses, and no attempt of that call follows.
C6_RetrySuccess ==
    retry.outcome = "returned" =>
        /\ retry.attempt_number <= 5
        /\ retry.returned_attempt = retry.attempt_number
        /\ retry.calls = retry.attempt_number
        /\ Len(retry.waits) = retry.attempt_number - 1
        /\ pc \notin AttemptPcs
        /\ responses # << >>
        /\ responses[Len(responses)] = Insights(batch_i)

\* C6 witness: run_single_batch failed twice and returned on its third
\* attempt.
C6_Witness ==
    /\ retry.outcome = "returned"
    /\ retry.fn = "run_single_batch"
    /\ retry.attempt_number = 3
    /\ retry.waits = << 1, 2 >>
    /\ pc = "batch_cooldown"

LastRendered(n) == SubSeq(rendered, Len(rendered) - n + 1, Len(rendered))

\* C7: once run_single_batch has terminally failed on batch k, no call is
\* started for a later batch, the responses are exactly the results of
\* batches 1..k-1 in order, and they are what generate_insights_report and
\* then generate_word_report are called with for that case (the second once
\* the first has returned).
C7_PartialResults ==
    (path = "batched" /\ failed_batch # 0) =>
        /\ batch_i = failed_batch
        /\ retry.outcome = "RetryError"
        /\ responses = Records(failed_batch - 1)
        /\ pc \in { "render_html", "render_word", "next_case", "doc_except" }
        /\ pc = "render_word" =>
               (Len(rendered) >= 1 /\ LastRendered(1) = << RenderCall("html") >>)
        /\ pc = "next_case" =>
               /\ Len(rendered) >= 2
               /\ LastRendered(2) = << RenderCall("html"), RenderCall("word") >>
        /\ pc = "doc_except" => doc_error = "RenderError"

\* C7 witness: batch 2 of 3 terminally failed and both reports of the case
\* have been written from the one record of batch 1.
C7_Witness ==
    /\ path = "batched"
    /\ failed_batch = 2
    /\ Len(prompt_batches) = 3
    /\ responses = << Insights(1) >>
    /\ pc = "next_case"
    /\ Len(rendered) >= 2

\* C10 (as claimed): with encodings = None every case that is begun takes the
\* full-document path, and every attempt made for it issues the completion
\* call.
C10_TokenizerUnavailable ==
    (~encodings /\ case_i >= 1) =>
        /\ path = "full"
        /\ retry.calls = AttemptsMade

\* C11: an exception raised while a document is processed (extraction,
\* routing, a terminally failed call, a renderer) is held at the document
\* boundary and nowhere else; the except clause only logs it and returns, so
\* the document counter and the exit code are left alone, the loop over
\* filenames goes on with the next document, in order, and the run finishes
\* with every document visited.
C11_DocumentIsolation ==
    /\ [](/\ doc_error # "" => pc = "doc_except"
          /\ docs_failed <= doc
          /\ docs_failed > 0 => exit_code # 1
          /\ (pc = "done" /\ docs_failed > 0) => doc = ndocs)
    /\ [][/\ pc = "doc_except" =>
                 /\ pc' = "next_doc"
                 /\ doc' = doc
                 /\ exit_code' = exit_code
                 /\ docs_failed' = docs_failed + 1
          /\ (pc = "next_doc" /\ doc < ndocs) =>
                 (doc' = doc + 1 /\ pc' \in { "next_case", "doc_except" })
          /\ doc' \in { doc, doc + 1 }]_vars

\* C11 witness: the first document failed and the reports of the second are
\* being written.
C11_Witness ==
    /\ doc = 2
    /\ docs_failed = 1
    /\ pc = "render_word"

CooldownPcs == { "full_cooldown", "batch_cooldown" }

\* C12: the attempt that returns is followed at once by a sleep of a fixed
\* length (60 seconds in run_full_page, 30 in run_batched_prompts), whatever
\* the number of attempts the call took; nothing else happens until the sleep
\* is over, so no completion call is issued during it; an attempt that raises
\* is followed by no such sleep, only by the backoff wait of the decorator
\* (or by the terminal failure).
C12_CooldownPacing ==
    /\ [](/\ pc = "full_cooldown" =>
                 (sleeping = 60 /\ retry.outcome = "returned")
          /\ pc = "batch_cooldown" =>
                 (sleeping = 30 /\ retry.outcome = "returned")
          /\ pc \notin CooldownPcs => sleeping = 0)
    /\ [][/\ (retry.outcome = "pending" /\ retry'.outcome = "returned") =>
                 (pc' \in CooldownPcs /\ sleeping' > 0)
          /\ (pc \in AttemptPcs /\ retry'.outcome # "returned") =>
                 /\ sleeping' = 0
                 /\ \/ Len(retry'.waits) = Len(retry.waits) + 1
                    \/ retry'.outcome = "RetryError"
          /\ pc \in CooldownPcs =>
                 /\ sleeping' = 0
                 /\ case_calls' = case_calls
                 /\ retry'.calls = 0 \/ retry' = retry]_vars

\* C12 witness: run_single_batch returned on its third attempt and the 30
\* seconds are being slept.
C12_Witness ==
    /\ pc = "batch_cooldown"
    /\ retry.attempt_number = 3
    /\ Len(retry.waits) = 2
    /\ sleeping = 30

\* C13: every returning call adds exactly one record to responses: while
\* the batched path runs, responses holds the records of the batches done so
\* far, in order; when no batch has terminally failed the list returned has
\* the length of prompt_batches and its i-th record is the result of the
\* i-th batch; with no failed attempt at all there are as many records as
\* completion calls; the full-document path returns exactly one record.
C13_RecordBatchCorrespondence ==
    /\ (path = "batched" /\ pc = "batch_attempt") =>
           responses = Records(batch_i - 1)
    /\ (path = "batched" /\ pc = "batch_cooldown") =>
           responses = Records(batch_i)
    /\ (path = "batched" /\ failed_batch = 0
            /\ pc \in { "render_html", "render_word" }) =>
           /\ Len(responses) = Len(prompt_batches)
           /\ \A i \in 1..Len(prompt_batches) : responses[i] = Insights(i)
    /\ (path = "batched" /\ ~case_failed) => Len(responses) = case_calls
    /\ (path = "full" /\ pc \in { "full_cooldown", "render_html", "render_word" })
           => responses = << Insights(0) >>

\* C13 witness: two batches, the second of which needed a retry, have both
\* returned and the reports are written from their two records.
C13_Witness ==
    /\ path = "batched"
    /\ pc = "render_html"
    /\ failed_batch = 0
    /\ case_failed
    /\ Len(prompt_batches) = 2
    /\ responses = << Insights(1), Insights(2) >>

\* the renderer calls made for case n of the current document
RenderedFor(n) == SelectSeq(rendered, LAMBDA call : call.case = n)

\* C20: when an exception has escaped a case to process_document's except,
\* no renderer is invoked for that case any more (none was, when the
\* full-document call terminally failed or the routing raised; only the HTML
\* one, when the Word renderer raised) and no case after it is begun: the
\* one step taken is the return of process_document, without a completion
\* call.  A case is only ever begun when every case before it has had both of
\* its reports written.
C20_DocumentWideCatch ==
    /\ [](/\ (pc = "doc_except" /\ doc_error \in { "RetryError", "AttributeError" })
                 => RenderedFor(case_i) = << >>
          /\ (pc = "doc_except" /\ doc_error = "RetryError") =>
                 /\ retry.fn = "run_full_page"
                 /\ retry.attempt_number = 5
                 /\ responses = << >>
          /\ (pc = "doc_except" /\ doc_error = "RenderError") =>
                 Len(RenderedFor(case_i)) <= 1
          /\ (pc = "doc_except" /\ case_i >= 1) =>
                 \A n \in (case_i + 1)..Len(cases) : RenderedFor(n) = << >>
          /\ pc \in { "next_case" } \cup AttemptPcs \cup CooldownPcs =>
                 Len(rendered) = 2 * (IF pc = "next_case" THEN case_i
                                      ELSE case_i - 1))
    /\ [][pc = "doc_except" =>
              /\ pc' = "next_doc"
              /\ rendered' = << >>
              /\ case_i' = 0
              /\ case_calls' = 0
              /\ retry' = NoCall]_vars

\* C20 witness: the full-document call of the first of two cases has
\* terminally failed.
C20_Witness ==
    /\ pc = "doc_except"
    /\ doc_error = "RetryError"
    /\ case_i = 1
    /\ Len(cases) = 2
    /\ retry.calls = 5

\* C20 witness (renderer): the Word renderer of the first of two cases raised.
C20_WitnessRenderer ==
    /\ pc = "doc_except"
    /\ doc_error = "RenderError"
    /\ case_i = 1
    /\ Len(cases) = 2
    /\ Len(rendered) = 1

\* C14: when every call returns or raises, run_analysis terminates; it has
\* then visited every listed document unless an exception was raised at the
\* top level, outside process_document; the exit code is 1 only in that case,
\* and 0 however many documents have failed.
C14_RunCompletion ==
    /\ <>(pc = "done")
    /\ [](pc = "done" => exit_code \in { 0, 1 })
    /\ []((pc = "done" /\ exit_code = 0) => doc = ndocs)
    /\ [](exit_code = 1 => (doc = 0 /\ docs_failed = 0))
    /\ [][exit_code' # exit_code => (pc \in { "setup", "next_doc" } /\ pc' = "done")]_vars

\* C14 witness: the run has ended with exit code 0 after both of its
\* documents failed.
C14_Witness ==
    /\ pc = "done"
    /\ exit_code = 0
    /\ ndocs = 2
    /\ docs_failed = 2

\* C15: when json.loads raises on the cleaned text of the cases file, as it
\* does on every text that is not JSON, cases is py_cases, the run is not
\* ended by it (no exit code 1), the cases stay what they are for the whole
\* run, every case begun is one of py_cases and the run ends with every
\* document visited.
C15_CaseDefinitionFallback ==
    /\ [](/\ \A text \in CaseFiles :
                 text.syntax = "garbage" =>
                     LoadCases(text) = [cases |-> py_cases, parse_failed |-> TRUE]
          /\ parse_failed =>
                 /\ cases = py_cases
                 /\ exit_code # 1
                 /\ case_i <= Len(py_cases)
                 /\ pc = "done" => doc = ndocs)
    /\ [][pc # "setup" => (cases' = cases /\ parse_failed' = parse_failed)]_vars

\* C15 witness: the cases file could not be parsed and the reports of the
\* default case are being written for the second document.
C15_Witness ==
    /\ parse_failed
    /\ cases = py_cases
    /\ doc = 2
    /\ case_i = 1
    /\ pc = "render_word"

StartsWith(s, prefix) ==
    Len(s) >= Len(prefix) /\ SubSeq(s, 1, Len(prefix)) = prefix

\* the character references a reader of the markup resolves, as html.unescape
\* does: the names with or without their semicolon, the longest first
References ==
    { [ref |-> amp, char |-> "&"], [ref |-> lt, char |-> "<"],
      [ref |-> gt, char |-> ">"], [ref |-> quot, char |-> "\""],
      [ref |-> x27, char |-> "'"],
      [ref |-> SubSeq(amp, 1, 4), char |-> "&"],
      [ref |-> SubSeq(lt, 1, 3), char |-> "<"],
      [ref |-> SubSeq(gt, 1, 3), char |-> ">"],
      [ref |-> SubSeq(quot, 1, 5), char |-> "\""],
      [ref |-> SubSeq(x27, 1, 5), char |-> "'"] }

MatchingReferences(s) == { r \in References : StartsWith(s, r.ref) }

LongestReference(s) ==
    CHOOSE r \in MatchingReferences(s) :
        \A o \in MatchingReferences(s) : Len(o.ref) <= Len(r.ref)

RECURSIVE Unescape(_)
Unescape(s) ==
    IF s = << >> THEN << >>
    ELSE IF MatchingReferences(s) # { }
         THEN << LongestReference(s).char >>
                  \o Unescape(SubSeq(s, Len(LongestReference(s).ref) + 1, Len(s)))
         ELSE << Head(s) >> \o Unescape(Tail(s))

\* no <, >, " or ' is left, and every & begins one of the five references
\* html.escape writes
NoRawReserved(s) ==
    \A i \in 1..Len(s) :
        /\ s[i] \notin { "<", ">", "\"", "'" }
        /\ s[i] = "&" =>
               \E ref \in { amp, lt, gt, quot, x27 } :
                   StartsWith(SubSeq(s, i, Len(s)), ref)

\* C16: the markup generate_insights_report writes for the text, context or
\* relation of a quote holds no raw reserved character, and resolving its
\* character references gives back the string of the field exactly.
C16_EscapingRoundTrip ==
    report.written =>
        /\ report.field \in QuoteFields
        /\ NoRawReserved(report.html)
        /\ Unescape(report.html) = report.original

\* C16 witness: a field that holds the text of a character reference has
\* been written.
C16_Witness ==
    /\ report.written
    /\ report.original = << "&", "l", "t" >>
    /\ report.html = << "&", "a", "m", "p", ";", "l", "t" >>

\* C21: the run has one decorated call at a time, and it is pending only
\* while one of its attempts is due; a completion call is issued by an attempt
\* step only, one per step; the first attempt for batch i + 1 is set up only
\* by the step that ends the cooldown of batch i, whose call has returned and
\* whose record is in responses; a case is begun only when both renderers of
\* every case before it have returned.
C21_SequentialDispatch ==
    /\ [](/\ pc \in AttemptPcs => (retry.outcome = "pending" /\ sleeping = 0)
          /\ pc \notin AttemptPcs =>
                 (retry = NoCall \/ retry.outcome \in { "returned", "RetryError" }))
    /\ [][/\ (batch_i >= 1 /\ batch_i' = batch_i + 1) =>
                 /\ pc = "batch_cooldown"
                 /\ retry.outcome = "returned"
                 /\ Len(responses) = batch_i
                 /\ sleeping = 30
                 /\ sleeping' = 0
                 /\ retry' = NewCall("run_single_batch")
          /\ case_i' = case_i + 1 =>
                 /\ pc = "next_case"
                 /\ Len(rendered) = 2 * case_i
                 /\ case_calls' = 0
          /\ case_calls' = case_calls + 1 => pc \in AttemptPcs
          /\ case_calls' \in { case_calls, case_calls + 1, 0 }]_vars

\* C21 witness: the first attempt for the second batch of the second case is
\* due.
C21_Witness ==
    /\ pc = "batch_attempt"
    /\ case_i = 2
    /\ batch_i = 2
    /\ retry.calls = 0
    /\ Len(rendered) = 2

\* attempt numbers for which the wait function is evaluated
MaxAttemptNumber == 8

\* C22 (as claimed): every wait between two attempts of a call lies between
\* 1 and 60, and the wait after the n-th failed attempt is 1 * 2^n clamped to
\* that range.
C22_BackoffTwoToTheN ==
    \A n \in 1..Len(retry.waits) :
        /\ retry.waits[n] >= 1
        /\ retry.waits[n] <= 60
        /\ retry.waits[n] = Max(1, Min(1 * Pow(2, n), 60))

\* C22 (amended): every wait between two attempts of a call lies between 1
\* and 60; the wait after the n-th failed attempt is 1 * 2^(n-1) clamped to
\* that range, so the waits of a call are 1, 2, 4, 8, each the double of the
\* one before; when a call has used up its attempts, the waits the function
\* gives for every attempt number up to MaxAttemptNumber stay within 1 and
\* 60 and are 60 from the seventh on.
C22_BackoffBounds ==
    /\ \A n \in 1..Len(retry.waits) :
           /\ retry.waits[n] >= 1
           /\ retry.waits[n] <= 60
           /\ retry.waits[n] = Max(1, Min(1 * Pow(2, n - 1), 60))
           /\ n > 1 => retry.waits[n] = Min(2 * retry.waits[n - 1], 60)
    /\ retry.outcome = "RetryError" =>
           \A n \in 1..MaxAttemptNumber :
               LET wait == wait_exponential(n)
               IN  /\ wait >= 1
                   /\ wait <= 60
                   /\ n >= 7 => wait = 60

\* C22 witness: a call has failed four times and waited 1, 2, 4 and 8.
C22_Witness ==
    /\ retry.waits = << 1, 2, 4, 8 >>
    /\ retry.attempt_number = 5
    /\ retry.fn = "run_single_batch"

\* C24 (as claimed): for a case on the batched path, the routing threshold
\* that sent it there is larger than the batch ceiling by an order of
\* magnitude, and its pages hold more tokens than one batch may.
C24_ThresholdSeparation ==
    path = "batched" =>
        /\ full_document_threshold > prompt_batch_size
        /\ full_document_threshold >= 10 * prompt_batch_size
        /\ total_length_of(pages) > prompt_batch_size

\* C24 (amended): the routing threshold and the batch ceiling are the same
\* number, 64000; the pages of a case on the batched path hold at least that
\* many tokens (exactly that many is possible, and then they fit one batch),
\* and the pages of a case on the full-document path hold fewer.
C24_ThresholdEqualsCeiling ==
    /\ full_document_threshold = prompt_batch_size
    /\ prompt_batch_size = 64000
    /\ path = "batched" =>
           (encodings /\ total_length_of(pages) >= prompt_batch_size)
    /\ (path = "full" /\ encodings) =>
           total_length_of(pages) < prompt_batch_size

\* C24 witness: a case on the batched path whose pages hold exactly 64000
\* tokens.
C24_Witness ==
    /\ path = "batched"
    /\ pc = "render_html"
    /\ total_length_of(pages) = 64000
    /\ Len(pages) = 2

\* C25: the terminal failure of a batch is caught in run_batched_prompts:
\* the step that makes it hands the responses gathered so far (possibly
\* none) to generate_insights_report of the same case, no RetryError ever
\* reaches process_document's except from the batched path, and after the
\* reports of that case the next case of the document is begun; the terminal
\* failure of run_full_page goes to process_document's except.
C25_BatchFailureStaysInCase ==
    /\ [](/\ (path = "batched" /\ failed_batch # 0) =>
                 /\ pc \in { "render_html", "render_word", "next_case",
                             "doc_except" }
                 /\ pc = "doc_except" => doc_error = "RenderError"
          /\ doc_error = "RetryError" =>
                 (path = "full" /\ retry.fn = "run_full_page"))
    /\ [][/\ (failed_batch = 0 /\ failed_batch' # 0) =>
                 /\ pc' = "render_html"
                 /\ doc_error' = ""
                 /\ case_i' = case_i
                 /\ rendered' = rendered
          /\ (pc = "next_case" /\ failed_batch # 0 /\ case_i < Len(cases)) =>
                 /\ case_i' = case_i + 1
                 /\ pc' \in AttemptPcs \cup { "render_html" }
          /\ (retry.fn = "run_full_page" /\ retry.outcome = "pending"
                  /\ retry'.outcome = "RetryError") =>
                 pc' = "doc_except"]_vars

\* C25 witness: the first batch of the first of two cases terminally failed,
\* both reports of the case have been written from no record, and the second
\* case is about to begin.
C25_Witness ==
    /\ path = "batched"
    /\ failed_batch = 1
    /\ pc = "next_case"
    /\ case_i = 1
    /\ Len(cases) = 2
    /\ Len(rendered) = 2
    /\ rendered[1].responses = << >>
    /\ rendered[2].renderer = "word"

\* C26: whatever the completion service does, a case on the full-document
\* path makes at most 5 attempts and at most 5 completion calls; a case on
\* the batched path makes at most 5 for each batch begun, so at most 5 times
\* the number of batches; once a batch has failed 5 times the case makes no
\* further attempt: no attempt is due and no later batch is begun.
C26_BoundedAttemptsPerCase ==
    /\ path = "full" =>
           /\ AttemptsMade <= 5
           /\ case_calls <= 5
           /\ case_calls <= AttemptsMade
    /\ path = "batched" =>
           /\ batch_i <= Len(prompt_batches)
           /\ case_calls <= 5 * Len(prompt_batches)
           /\ batch_i >= 1 =>
                  /\ AttemptsMade <= 5
                  /\ case_calls <= 5 * (batch_i - 1) + AttemptsMade
           /\ batch_i = 0 => case_calls = 0
    /\ failed_batch # 0 =>
           /\ pc \notin AttemptPcs \cup CooldownPcs
           /\ batch_i = failed_batch
           /\ AttemptsMade = 5
           /\ case_calls <= 5 * failed_batch

\* C26 witness: a case of two batches has made 10 completion calls: 5 for
\* the first batch, which returned on the last, and 5 for the second, which
\* terminally failed.
C26_Witness ==
    /\ path = "batched"
    /\ Len(prompt_batches) = 2
    /\ failed_batch = 2
    /\ case_calls = 10

====
